---------------------------- MODULE Spec2Model ----------------------------
(***************************************************************************)
(* The booking POST handler of src/app/api/bookings/route.ts as a state    *)
(* machine: every await of the handler is one step of a request, the       *)
(* synchronous code that follows an await belongs to the same step, and    *)
(* requests interleave freely between steps.  The store (student profiles, *)
(* tutor profiles, bookings, conversations, notifications) is shared.      *)
(*                                                                         *)
(* JavaScript values are modelled as follows.  A string whose characters   *)
(* matter (a time of day, a slot, a message part) is a sequence of         *)
(* one-character strings and is compared as JavaScript compares strings,   *)
(* by code unit.  undefined is the value Undefined.  An instant is a       *)
(* number of minutes since the Unix epoch (the handler only reads day,     *)
(* hour and minute).  An identifier is an atomic string.                   *)
(*                                                                         *)
(* The second part is the two PDF text extractors, extractPDFText and      *)
(* extractSpecificPages, which share no state with the booking handler:    *)
(* a call runs alone, over the page count and the text pdf-parse yields.   *)
(***************************************************************************)
EXTENDS Integers, Sequences, FiniteSets, TLC

(***************************************************************************)
(* Strings                                                                 *)
(***************************************************************************)

\* The value of a missing property or array element.
Undefined == <<"undefined">>

\* The characters the handler compares, in code-unit order:
\* ' ' 32, ',' 44, '-' 45, '0'..'9' 48..57, ':' 58, 'A'.. 65.., 'a'.. 97..
CharOrder ==
  << " ", ",", "-", "0", "1", "2", "3", "4", "5", "6", "7", "8", "9", ":",
     "A", "M", "N", "P", "a", "d", "e", "f", "i", "n", "u" >>

Code(c) == CHOOSE i \in 1..Len(CharOrder) : CharOrder[i] = c

\* a < b on two strings.
RECURSIVE StrLt(_, _)
StrLt(a, b) ==
  IF b = << >> THEN FALSE
  ELSE IF a = << >> THEN TRUE
  ELSE IF Head(a) = Head(b) THEN StrLt(Tail(a), Tail(b))
  ELSE Code(Head(a)) < Code(Head(b))

\* a <= b where each side is a string or undefined: undefined converts to
\* NaN and every comparison with NaN is false.
JsLe(a, b) == a # Undefined /\ b # Undefined /\ ~StrLt(b, a)

\* a > b, likewise.
JsGt(a, b) == a # Undefined /\ b # Undefined /\ StrLt(b, a)

\* v || w
JsOr(v, w) == IF v # Undefined /\ v # << >> THEN v ELSE w

\* obj[name]
Prop(obj, name) == IF name \in DOMAIN obj THEN obj[name] ELSE Undefined

\* `${v}`
ToStr(v) ==
  IF v = Undefined THEN <<"u", "n", "d", "e", "f", "i", "n", "e", "d">> ELSE v

\* s.split(sep) for a one-character separator.
RECURSIVE SplitFrom(_, _, _)
SplitFrom(s, sep, cur) ==
  IF s = << >> THEN << cur >>
  ELSE IF Head(s) = sep THEN << cur >> \o SplitFrom(Tail(s), sep, << >>)
  ELSE SplitFrom(Tail(s), sep, Append(cur, Head(s)))

Split(s, sep) == SplitFrom(s, sep, << >>)

\* const [a, b] = parts
Elem(parts, i) == IF i \in DOMAIN parts THEN parts[i] ELSE Undefined

DigitChars == << "0", "1", "2", "3", "4", "5", "6", "7", "8", "9" >>

IsDigit(c) == \E i \in 1..Len(DigitChars) : DigitChars[i] = c

DigitVal(c) == (CHOOSE i \in 1..Len(DigitChars) : DigitChars[i] = c) - 1

\* n.toString() for n >= 0
RECURSIVE NumToStr(_)
NumToStr(n) ==
  IF n < 10 THEN << DigitChars[n + 1] >>
  ELSE Append(NumToStr(n \div 10), DigitChars[(n % 10) + 1])

\* s.padStart(2, '0')
PadStart2(s) == IF Len(s) < 2 THEN << "0" >> \o s ELSE s

\* parseInt(s): the number its leading digits spell, NaN when it has none.
NaN == [nan |-> TRUE]

Num(n) == [nan |-> FALSE, n |-> n]

RECURSIVE ParseDigits(_, _)
ParseDigits(s, acc) ==
  IF s # << >> /\ IsDigit(Head(s))
    THEN ParseDigits(Tail(s), 10 * acc + DigitVal(Head(s)))
    ELSE acc

ParseInt(s) ==
  IF s # << >> /\ IsDigit(Head(s)) THEN Num(ParseDigits(s, 0)) ELSE NaN

\* `${x}` for a number x
NumStr(x) == IF x.nan THEN << "N", "a", "N" >> ELSE NumToStr(x.n)

(***************************************************************************)
(* Dates                                                                   *)
(***************************************************************************)

\* The wall clock, in minutes since the epoch, that the local getters of a
\* Date read for instant t on a server whose getTimezoneOffset() is offset
\* (UTC minus local time, in minutes).
LocalClock(t, offset) == t - offset

\* getDay(): 0 is Sunday; the epoch, 1 January 1970, was a Thursday.
GetDay(clock) == (4 + (clock \div 1440)) % 7

GetHours(clock) == (clock % 1440) \div 60

GetMinutes(clock) == clock % 60

\* new Date(bookingDate.getTime() + bookingDate.getTimezoneOffset() * 60000)
LocalBookingDate(startTime, offset) == startTime + offset

\* localBookingDate.getDay()
DayOfWeek(startTime, offset) ==
  GetDay(LocalClock(LocalBookingDate(startTime, offset), offset))

\* `${hours.padStart(2,'0')}:${minutes.padStart(2,'0')}`
BookingStartTime(startTime, offset) ==
  LET clock == LocalClock(LocalBookingDate(startTime, offset), offset)
  IN  PadStart2(NumToStr(GetHours(clock))) \o << ":" >>
        \o PadStart2(NumToStr(GetMinutes(clock)))

(***************************************************************************)
(* The availability check.  A schedule is [kind |-> "null"], a list        *)
(* [kind |-> "array", items |-> <<entry, ...>>] or a map                   *)
(* [kind |-> "object", props |-> [monday |-> day, ...]].  A slot of a map  *)
(* day is [kind |-> "string", text |-> s] or [kind |-> "object",           *)
(* props |-> [start |-> s, end |-> s]] (or startTime, endTime).            *)
(***************************************************************************)

dayNames ==
  << "sunday", "monday", "tuesday", "wednesday", "thursday", "friday",
     "saturday" >>

\* dayNames[dayOfWeek], the array being 0-based
DayName(dayOfWeek) == dayNames[dayOfWeek + 1]

\* ListSlotMatches without the comparison of the day.
ListSlotMatchesAnyDay(slot, dayOfWeek, bookingStartTime) ==
  /\ JsLe(slot.startTime, bookingStartTime)
  /\ JsGt(slot.endTime, bookingStartTime)

\* ListSlotMatches with the end of the window included.
ListSlotMatchesEndInclusive(slot, dayOfWeek, bookingStartTime) ==
  /\ slot.dayOfWeek = dayOfWeek
  /\ JsLe(slot.startTime, bookingStartTime)
  /\ JsLe(bookingStartTime, slot.endTime)

\* The callback of availability.some for the list form.
ListSlotMatches(slot, dayOfWeek, bookingStartTime) ==
  /\ slot.dayOfWeek = dayOfWeek
  /\ JsLe(slot.startTime, bookingStartTime)
  /\ JsGt(slot.endTime, bookingStartTime)

\* SlotStart that reads only slot.start of an object.
SlotStartShortOnly(slot) ==
  IF slot.kind = "string"
    THEN Elem(Split(slot.text, "-"), 1)
    ELSE Prop(slot.props, "start")

\* slotStart of a map-form slot.
SlotStart(slot) ==
  IF slot.kind = "string"
    THEN Elem(Split(slot.text, "-"), 1)
    ELSE JsOr(Prop(slot.props, "startTime"), Prop(slot.props, "start"))

\* slotEnd of a map-form slot.
SlotEnd(slot) ==
  IF slot.kind = "string"
    THEN Elem(Split(slot.text, "-"), 2)
    ELSE JsOr(Prop(slot.props, "endTime"), Prop(slot.props, "end"))

\* The callback of dayAvailability.slots.some for the map form.
MapSlotMatches(slot, bookingStartTime) ==
  /\ JsLe(SlotStart(slot), bookingStartTime)
  /\ JsGt(SlotEnd(slot), bookingStartTime)

\* DayOpen without the test of dayData.available.
DayOpenIgnoringAvailable(props, name) ==
  name \in DOMAIN props /\ "slots" \in DOMAIN props[name]

\* dayData && dayData.available && dayData.slots, for dayData = props[name]
DayOpen(props, name) ==
  /\ name \in DOMAIN props
  /\ "available" \in DOMAIN props[name]
  /\ props[name].available
  /\ "slots" \in DOMAIN props[name]

\* isAvailable after the if (availability) { ... } block.
IsAvailable(availability, dayOfWeek, bookingStartTime) ==
  IF availability.kind = "null" THEN FALSE
  ELSE IF availability.kind = "array"
    THEN \E i \in DOMAIN availability.items :
           ListSlotMatches(availability.items[i], dayOfWeek, bookingStartTime)
  ELSE /\ DayOpen(availability.props, DayName(dayOfWeek))
       /\ LET slots == availability.props[DayName(dayOfWeek)].slots
          IN  \E i \in DOMAIN slots : MapSlotMatches(slots[i], bookingStartTime)

(***************************************************************************)
(* The rejection message, built when isAvailable is false.                 *)
(***************************************************************************)

\* The element of availableSlots that dayData.slots.map makes of a slot.
SlotText(slot) ==
  IF slot.kind = "string"
    THEN slot.text
    ELSE ToStr(Prop(slot.props, "start")) \o << "-" >>
           \o ToStr(Prop(slot.props, "end"))

\* availableSlots: typeof availability === 'object' holds for a list too,
\* whose property under a day name is undefined.
AvailableSlots(availability, dayOfWeek) ==
  IF /\ availability.kind = "object"
     /\ DayOpen(availability.props, DayName(dayOfWeek))
    THEN LET slots == availability.props[DayName(dayOfWeek)].slots
         IN  [i \in DOMAIN slots |-> SlotText(slots[i])]
    ELSE << >>

\* name.charAt(0).toUpperCase() + name.slice(1)
Capitalize(name) ==
  CASE name = "sunday" -> "Sunday"
    [] name = "monday" -> "Monday"
    [] name = "tuesday" -> "Tuesday"
    [] name = "wednesday" -> "Wednesday"
    [] name = "thursday" -> "Thursday"
    [] name = "friday" -> "Friday"
    [] name = "saturday" -> "Saturday"

\* data && data.available && data.slots && data.slots.length > 0
DayListed(availability, name) ==
  /\ availability.kind = "object"
  /\ DayOpen(availability.props, name)
  /\ Len(availability.props[name].slots) > 0

\* availableDays after dayNames.forEach, over the first n day names.
RECURSIVE AvailableDaysUpTo(_, _)
AvailableDaysUpTo(availability, n) ==
  IF n = 0 THEN << >>
  ELSE LET rest == AvailableDaysUpTo(availability, n - 1)
       IN  IF DayListed(availability, dayNames[n])
             THEN Append(rest, Capitalize(dayNames[n]))
             ELSE rest

AvailableDays(availability) == AvailableDaysUpTo(availability, Len(dayNames))

\* startDisplayHour / endDisplayHour
DisplayHour(hourNum) ==
  IF hourNum.nan THEN hourNum
  ELSE IF hourNum.n = 0 THEN Num(12)
  ELSE IF hourNum.n > 12 THEN Num(hourNum.n - 12)
  ELSE hourNum

\* startAmpm / endAmpm
Ampm(hourNum) ==
  IF ~hourNum.nan /\ hourNum.n >= 12 THEN << "P", "M" >> ELSE << "A", "M" >>

\* `${displayHour}:${minute} ${ampm}` of one bound "HH:MM" of a slot
FormatBound(time) ==
  LET hour    == Elem(Split(time, ":"), 1)
      minute  == Elem(Split(time, ":"), 2)
      hourNum == ParseInt(hour)
  IN  NumStr(DisplayHour(hourNum)) \o << ":" >> \o ToStr(minute)
        \o << " " >> \o Ampm(hourNum)

\* endTime.split(':') throws a TypeError when the slot text holds no '-'.
FormatThrows(slotText) == Elem(Split(slotText, "-"), 2) = Undefined

\* The callback of availableSlots.map that makes formattedSlots.
FormatSlot(slotText) ==
  FormatBound(Elem(Split(slotText, "-"), 1)) \o << " ", "-", " " >>
    \o FormatBound(Elem(Split(slotText, "-"), 2))

\* The console.log block and the availableSlots block read
\* availability[dayName]: on null, whose typeof is 'object', that throws.
RejectionThrows(availability, dayOfWeek) ==
  \/ availability.kind = "null"
  \/ LET texts == AvailableSlots(availability, dayOfWeek)
     IN  \E i \in DOMAIN texts : FormatThrows(texts[i])

\* errorMessage, as the parts appended to 'Tutor is not available at this
\* time.': the slots of the day (joined by ', ') or the days.
RejectionMessage(availability, dayOfWeek) ==
  LET texts == AvailableSlots(availability, dayOfWeek)
  IN  IF Len(texts) > 0
        THEN [kind |-> "slots", day |-> DayName(dayOfWeek),
              items |-> [i \in DOMAIN texts |-> FormatSlot(texts[i])]]
        ELSE [kind |-> "days", items |-> AvailableDays(availability)]

(***************************************************************************)
(* The store's fixed rows and the inputs of the requests.                  *)
(***************************************************************************)

Time(h1, h2, m1, m2) == << h1, h2, ":", m1, m2 >>

StringSlot(start, end) == [kind |-> "string", text |-> start \o << "-" >> \o end]

ObjectSlot(start, end) ==
  [kind |-> "object", props |-> [start |-> start, end |-> end]]

LongObjectSlot(start, end) ==
  [kind |-> "object", props |-> [startTime |-> start, endTime |-> end]]

ListEntry(day, start, end) ==
  [dayOfWeek |-> day, startTime |-> start, endTime |-> end]

ListSchedule(items) == [kind |-> "array", items |-> items]

MapSchedule(props) == [kind |-> "object", props |-> props]

NullSchedule == [kind |-> "null"]

\* [{dayOfWeek: 1, startTime: "09:00", endTime: "12:00"}]
ListOne ==
  ListSchedule(<< ListEntry(1, Time("0","9","0","0"), Time("1","2","0","0")) >>)

\* Adjacent, duplicate and overlapping entries, and a second day.
ListMany ==
  ListSchedule(
    << ListEntry(1, Time("0","9","0","0"), Time("1","0","3","0")),
       ListEntry(2, Time("0","9","0","0"), Time("1","2","0","0")),
       ListEntry(1, Time("1","0","3","0"), Time("1","2","0","0")),
       ListEntry(1, Time("0","9","0","0"), Time("1","0","3","0")) >>)

\* {monday: {available: true, slots: ["09:00-12:00"]}}
MapString ==
  MapSchedule(
    [monday |-> [available |-> TRUE,
                 slots |-> << StringSlot(Time("0","9","0","0"),
                                          Time("1","2","0","0")) >>]])

\* {start, end} slots, and a closed day that lists a slot.
MapObject ==
  MapSchedule(
    [monday  |-> [available |-> TRUE,
                  slots |-> << ObjectSlot(Time("0","0","0","0"),
                                          Time("1","0","3","0")),
                               ObjectSlot(Time("1","2","0","0"),
                                          Time("2","3","1","5")) >>],
     tuesday |-> [available |-> FALSE,
                  slots |-> << StringSlot(Time("0","9","0","0"),
                                          Time("1","2","0","0")) >>]])

\* {startTime, endTime} slots.
MapLongObject ==
  MapSchedule(
    [monday |-> [available |-> TRUE,
                 slots |-> << LongObjectSlot(Time("0","9","0","0"),
                                             Time("1","2","0","0")) >>]])

\* An open day without slots, a day without a slots list, and open days.
MapDays ==
  MapSchedule(
    [monday    |-> [available |-> TRUE, slots |-> << >>],
     tuesday   |-> [available |-> TRUE,
                    slots |-> << StringSlot(Time("0","9","0","0"),
                                            Time("1","2","0","0")) >>],
     wednesday |-> [available |-> TRUE],
     friday    |-> [available |-> TRUE,
                    slots |-> << ObjectSlot(Time("1","3","0","0"),
                                            Time("1","7","0","0")) >>],
     saturday  |-> [available |-> FALSE,
                    slots |-> << StringSlot(Time("0","9","0","0"),
                                            Time("1","2","0","0")) >>]])

\* {monday: {available: true, slots: ["9:00-17:00"]}}: bounds written
\* without a leading zero.
MapUnpadded ==
  MapSchedule(
    [monday |-> [available |-> TRUE,
                 slots |-> << StringSlot(<< "9", ":", "0", "0" >>,
                                          Time("1","7","0","0")) >>]])

\* {monday: {available: true, slots: [{start: "9:00", end: "17:00"}]}}
MapUnpaddedObject ==
  MapSchedule(
    [monday |-> [available |-> TRUE,
                 slots |-> << ObjectSlot(<< "9", ":", "0", "0" >>,
                                          Time("1","7","0","0")) >>]])

\* The schedules tutor t1 may have stored.
Schedules ==
  { NullSchedule, ListOne, ListMany, MapString, MapObject, MapLongObject,
    MapDays }

\* The values getTimezoneOffset() may return on the server (UTC, India).
ServerOffsets == { 0, -330 }

\* The user table: two students and the two tutors' users.
Users ==
  { [id |-> "u1", role |-> "STUDENT"], [id |-> "u2", role |-> "STUDENT"],
    [id |-> "u3", role |-> "TUTOR"], [id |-> "u4", role |-> "TUTOR"] }

\* The authorization header of a request: none, one that does not verify,
\* or a token that verifies and carries a user id (u9 has been deleted).
Tokens ==
  { [kind |-> "none"], [kind |-> "invalid"] }
    \cup { [kind |-> "valid", userId |-> u] : u \in {"u1", "u2", "u3", "u9"} }

\* The instants requests name, in minutes since the epoch: Monday 5 January
\* 1970 at 09:00, 10:30 and 12:00 UTC and Tuesday at 09:00 UTC.
Mon0900 == 4 * 1440 + 9 * 60

Mon1030 == 4 * 1440 + 10 * 60 + 30

Mon1200 == 4 * 1440 + 12 * 60

Tue0900 == 5 * 1440 + 9 * 60

\* The (startTime, endTime) pairs of the requests: adjacent intervals, one
\* that holds another strictly inside, partial overlaps on either side, a
\* start on a slot's end, a start on another day, and an end that is not
\* after its start.
Intervals ==
  { << Mon0900, Mon1030 >>, << Mon1030, Mon1200 >>, << Mon0900, Mon1200 >>,
    << Mon0900, Tue0900 >>, << Mon1030, Tue0900 >>, << Mon1200, Tue0900 >>,
    << Tue0900, Mon1200 >>, << Mon1030, Mon1030 >> }

\* The request bodies: complete ones for the two tutors, one for a tutor
\* that does not exist, and one with each field missing.
Bodies ==
  { [tutorId |-> t, startTime |-> i[1], endTime |-> i[2]] :
      t \in {"t1", "t2"}, i \in Intervals }
    \cup { [tutorId |-> "t7", startTime |-> Mon0900, endTime |-> Mon1030],
           [startTime |-> Mon0900, endTime |-> Mon1030],
           [tutorId |-> "t1", endTime |-> Mon1030],
           [tutorId |-> "t1", startTime |-> Mon0900] }

\* How many requests the server receives; they are numbered as they arrive.
MaxRequests == 2

Requests == 1..MaxRequests

(***************************************************************************)
(* State                                                                   *)
(***************************************************************************)

VARIABLES
  serverOffset,     \* what getTimezoneOffset() returns on the server
  tutorProfiles,    \* the tutorProfile table: id -> row
  studentProfiles,  \* the studentProfile table, a set of rows
  bookings,         \* the booking table, in insertion order
  conversations,    \* the conversation table, in insertion order
  notifications,    \* the notification table, in insertion order
  limit,            \* how many requests the server handles at a time
  started,          \* how many requests have been received
  pc,               \* where each request's handler stands
  frame,            \* the handler's request and local variables
  response,         \* what the handler returned
  extraction,       \* the call of a PDF text extractor and its locals
  summarize         \* the summarization request, its handler and its answer

vars ==
  << serverOffset, tutorProfiles, studentProfiles, bookings, conversations,
     notifications, limit, started, pc, frame, response, extraction,
     summarize >>

\* What no step of the handler changes.
fixed == << serverOffset, tutorProfiles, limit, extraction, summarize >>

store == << studentProfiles, bookings, conversations, notifications >>

\* null, and a local not yet assigned
Null == [kind |-> "null"]

\* No extractor has been called.
NotCalled == [fn |-> "none", step |-> "idle"]

\* The request (token, body) and the locals of POST, named as in the code.
\* A handler that has not started or has returned holds none.
NoFrame ==
  [token |-> Null, user |-> Null, body |-> Null, studentProfile |-> Null,
   tutor |-> Null, isAvailable |-> FALSE, existingBooking |-> Null,
   booking |-> Null, conversation |-> Null]

\* No response yet.
NoResponse == [status |-> 0]

\* No summarization request yet.  The record holds the request (body), the
\* function that handles it, its locals and what it answered; completion
\* tells how the completion call ended.
NotPosted ==
  [step |-> "idle", fn |-> "none", body |-> Null, actualContent |-> << >>,
   completionCalls |-> 0, completion |-> "none", response |-> NoResponse]

\* NextResponse.json({ error }, { status })
Json(status, error) == [status |-> status, error |-> error]

\* The catch block: console.error logs what was thrown, the response is 500.
InternalError(thrown) ==
  [status |-> 500, error |-> "Internal server error", logged |-> thrown]

\* The requests being handled.
InFlight == { r \in Requests : pc[r] \notin {"idle", "done"} }

InitWith(offsets, schedules, atATime) ==
  /\ serverOffset \in offsets
  /\ limit = atATime
  /\ \E availability \in schedules :
       tutorProfiles =
         [id \in {"t1", "t2"} |->
            IF id = "t1"
              THEN [id |-> "t1", userId |-> "u3", availability |-> availability]
              ELSE [id |-> "t2", userId |-> "u4", availability |-> ListOne]]
  /\ studentProfiles = { [id |-> "s1", userId |-> "u1"] }
  /\ bookings = << >>
  /\ conversations = << >>
  /\ notifications = << >>
  /\ started = 0
  /\ pc = [r \in Requests |-> "idle"]
  /\ frame = [r \in Requests |-> NoFrame]
  /\ response = [r \in Requests |-> NoResponse]
  /\ extraction = NotCalled
  /\ summarize = NotPosted

\* The handler returns res; its locals are gone.
Return(r, res) ==
  /\ pc' = [pc EXCEPT ![r] = "done"]
  /\ frame' = [frame EXCEPT ![r] = NoFrame]
  /\ response' = [response EXCEPT ![r] = res]

\* The handler goes on to the await at label with its locals as in f.
Continue(r, label, f) ==
  /\ pc' = [pc EXCEPT ![r] = label]
  /\ frame' = [frame EXCEPT ![r] = f]
  /\ UNCHANGED response

(***************************************************************************)
(* The handler, one action per await: the await and the synchronous code   *)
(* up to the next one.                                                     *)
(***************************************************************************)

\* The next request arrives and its handler starts.
Receive(r) ==
  /\ pc[r] = "idle"
  /\ r = started + 1
  /\ Cardinality(InFlight) < limit
  /\ started' = started + 1
  /\ \E t \in Tokens : Continue(r, "auth", [frame[r] EXCEPT !.token = t])
  /\ UNCHANGED << fixed, store >>

\* authenticateUser(req): the user of a token that verifies, when the user
\* table still holds it; null otherwise (with an error).
AuthenticateUser(t) ==
  IF t.kind = "valid" /\ \E u \in Users : u.id = t.userId
    THEN CHOOSE u \in Users : u.id = t.userId
    ELSE Null

\* What authenticateUser may return: it answers null as well when its read
\* of the user table fails.
AuthOutcomes(t) == { AuthenticateUser(t), Null }

\* error || !user
Unauthorized(u) == u = Null

\* RoleRefused that lets every role through.
RoleNeverRefused(u) == FALSE

\* user.role !== 'STUDENT'
RoleRefused(u) == u.role # "STUDENT"

\* await authenticateUser(req), then the checks of user and role.
Authenticate(r) ==
  /\ pc[r] = "auth"
  /\ \E u \in AuthOutcomes(frame[r].token) :
       IF Unauthorized(u) THEN Return(r, Json(401, "Unauthorized"))
       ELSE IF RoleRefused(u)
         THEN Return(r, Json(403, "Only students can book sessions"))
       ELSE Continue(r, "body", [frame[r] EXCEPT !.user = u])
  /\ UNCHANGED << fixed, store, started >>

\* !tutorId || !startTime || !endTime
MissingFields(b) ==
  \/ "tutorId" \notin DOMAIN b
  \/ "startTime" \notin DOMAIN b
  \/ "endTime" \notin DOMAIN b

\* await req.json(), then the validation of the input.
ReadBody(r) ==
  /\ pc[r] = "body"
  /\ \E b \in Bodies :
       IF MissingFields(b)
         THEN Return(r, Json(400, "Missing required fields"))
         ELSE Continue(r, "profile", [frame[r] EXCEPT !.body = b])
  /\ UNCHANGED << fixed, store, started >>

\* The rows of the studentProfile table for a user.
ProfilesOf(userId) == { p \in studentProfiles : p.userId = userId }

\* await prisma.studentProfile.findUnique({ where: { userId: user.id } })
FindStudentProfile(r) ==
  /\ pc[r] = "profile"
  /\ IF ProfilesOf(frame[r].user.id) # {}
       THEN Continue(r, "tutor",
              [frame[r] EXCEPT
                 !.studentProfile = CHOOSE p \in ProfilesOf(frame[r].user.id) : TRUE])
       ELSE Continue(r, "newProfile", frame[r])
  /\ UNCHANGED << fixed, store, started >>

\* The id the store gives the profile it creates for a user.
NewProfileId(userId) == IF userId = "u2" THEN "s2" ELSE "s0"

\* await prisma.studentProfile.create(...), then the 400 response.  userId
\* is a unique key of the table (findUnique reads by it): creating a second
\* row for the user throws.
CreateStudentProfile(r) ==
  /\ pc[r] = "newProfile"
  /\ IF ProfilesOf(frame[r].user.id) # {}
       THEN /\ UNCHANGED studentProfiles
            /\ Return(r, InternalError("unique constraint"))
       ELSE /\ studentProfiles' =
                 studentProfiles \cup
                   { [id |-> NewProfileId(frame[r].user.id),
                      userId |-> frame[r].user.id] }
            /\ Return(r, Json(400,
                 "Student profile created. Please try booking again."))
  /\ UNCHANGED << fixed, bookings, conversations, notifications, started >>

\* How the synchronous code between the tutor lookup and the conflict
\* query ends for a stored schedule and a requested start: "throws",
\* "rejected" or "available".
AvailabilityOutcome(availability, startTime, offset) ==
  LET dayOfWeek == DayOfWeek(startTime, offset)
      at        == BookingStartTime(startTime, offset)
  IN  IF IsAvailable(availability, dayOfWeek, at) THEN "available"
      ELSE IF RejectionThrows(availability, dayOfWeek) THEN "throws"
      ELSE "rejected"

\* The 400 response of the availability check.
Unavailable(availability, startTime, offset) ==
  [status |-> 400, error |-> "Tutor is not available at this time.",
   reason |-> RejectionMessage(availability, DayOfWeek(startTime, offset))]

\* await prisma.tutorProfile.findUnique({ where: { id: tutorId } }), then
\* the availability check up to the conflict query.
FindTutor(r) ==
  /\ pc[r] = "tutor"
  /\ IF frame[r].body.tutorId \notin DOMAIN tutorProfiles
       THEN Return(r, Json(404, "Tutor not found"))
       ELSE LET t       == tutorProfiles[frame[r].body.tutorId]
                outcome == AvailabilityOutcome(t.availability,
                             frame[r].body.startTime, serverOffset)
            IN  IF outcome = "available"
                  THEN Continue(r, "conflict",
                         [frame[r] EXCEPT !.tutor = t, !.isAvailable = TRUE])
                ELSE IF outcome = "throws"
                  THEN Return(r, InternalError("TypeError"))
                ELSE Return(r, Unavailable(t.availability,
                                 frame[r].body.startTime, serverOffset))
  /\ UNCHANGED << fixed, store, started >>

\* ConflictWhere with a status filter: a query that counts only the bookings
\* still pending.
ConflictWherePendingOnly(b, tutorId, startTime, endTime) ==
  /\ b.tutorId = tutorId
  /\ b.status = "pending"
  /\ \/ b.startTime <= startTime /\ b.endTime > startTime
     \/ b.startTime < endTime /\ b.endTime >= endTime

\* The where clause of the conflict query, for one row of the table.
ConflictWhere(b, tutorId, startTime, endTime) ==
  /\ b.tutorId = tutorId
  /\ \/ b.startTime <= startTime /\ b.endTime > startTime
     \/ b.startTime < endTime /\ b.endTime >= endTime

\* The rows prisma.booking.findFirst may return.
ConflictRows(tutorId, startTime, endTime) ==
  { i \in DOMAIN bookings :
      ConflictWhere(bookings[i], tutorId, startTime, endTime) }

\* The 400 response of the conflict check.
Conflict == Json(400, "This time slot is already booked")

\* What prisma.booking.findFirst may return: null or, the query naming no
\* order, any matching row.
ExistingBookings(tutorId, startTime, endTime) ==
  IF ConflictRows(tutorId, startTime, endTime) = {}
    THEN { Null }
    ELSE { bookings[i] : i \in ConflictRows(tutorId, startTime, endTime) }

\* await prisma.booking.findFirst(...), then the check of existingBooking.
FindConflict(r) ==
  /\ pc[r] = "conflict"
  /\ \E found \in ExistingBookings(frame[r].body.tutorId,
                     frame[r].body.startTime, frame[r].body.endTime) :
       IF found # Null
         THEN Return(r, Conflict)
         ELSE Continue(r, "create", [frame[r] EXCEPT !.existingBooking = found])
  /\ UNCHANGED << fixed, store, started >>

\* The row prisma.booking.create inserts.
NewBooking(f) ==
  [id |-> Len(bookings) + 1, tutorId |-> f.body.tutorId,
   studentId |-> f.studentProfile.id, startTime |-> f.body.startTime,
   endTime |-> f.body.endTime, subject |-> "General", status |-> "pending"]

\* CreateBooking that runs the conflict query again with the insert, as one
\* step: what a transaction around the two would do.
CreateBookingIfStillFree(r) ==
  /\ pc[r] = "create"
  /\ IF ConflictRows(frame[r].body.tutorId, frame[r].body.startTime,
                     frame[r].body.endTime) = {}
       THEN /\ bookings' = Append(bookings, NewBooking(frame[r]))
            /\ Continue(r, "conversation",
                 [frame[r] EXCEPT !.booking = NewBooking(frame[r])])
       ELSE /\ UNCHANGED bookings
            /\ Return(r, Conflict)
  /\ UNCHANGED << fixed, studentProfiles, conversations, notifications,
                  started >>

\* await prisma.booking.create(...)
CreateBooking(r) ==
  /\ pc[r] = "create"
  /\ bookings' = Append(bookings, NewBooking(frame[r]))
  /\ Continue(r, "conversation",
       [frame[r] EXCEPT !.booking = NewBooking(frame[r])])
  /\ UNCHANGED << fixed, studentProfiles, conversations, notifications,
                  started >>

\* The where clause of the conversation lookup.
ConversationWhere(c, studentId, tutorId) ==
  c.studentId = studentId /\ c.tutorId = tutorId

\* The rows prisma.conversation.findFirst may return.
ConversationRows(studentId, tutorId) ==
  { i \in DOMAIN conversations :
      ConversationWhere(conversations[i], studentId, tutorId) }

\* FindConversation whose lookup never finds a row.
FindConversationNeverFinds(r) ==
  /\ pc[r] = "conversation"
  /\ Continue(r, "newConversation", frame[r])
  /\ UNCHANGED << fixed, store, started >>

\* await prisma.conversation.findFirst(...)
FindConversation(r) ==
  /\ pc[r] = "conversation"
  /\ LET rows == ConversationRows(frame[r].studentProfile.id, frame[r].tutor.id)
     IN  IF rows = {}
           THEN Continue(r, "newConversation", frame[r])
           ELSE \E i \in rows :
                  Continue(r, "notification",
                    [frame[r] EXCEPT !.conversation = conversations[i]])
  /\ UNCHANGED << fixed, store, started >>

\* The row prisma.conversation.create inserts.
NewConversation(f) ==
  [id |-> Len(conversations) + 1, studentId |-> f.studentProfile.id,
   tutorId |-> f.tutor.id]

\* CreateConversation as an upsert on (studentId, tutorId): what a unique
\* index on the pair, with the create falling back to the existing row,
\* would do.
CreateConversationIfStillNone(r) ==
  /\ pc[r] = "newConversation"
  /\ LET rows == ConversationRows(frame[r].studentProfile.id, frame[r].tutor.id)
     IN  IF rows = {}
           THEN /\ conversations' =
                     Append(conversations, NewConversation(frame[r]))
                /\ Continue(r, "notification",
                     [frame[r] EXCEPT !.conversation = NewConversation(frame[r])])
           ELSE /\ UNCHANGED conversations
                /\ \E i \in rows :
                     Continue(r, "notification",
                       [frame[r] EXCEPT !.conversation = conversations[i]])
  /\ UNCHANGED << fixed, studentProfiles, bookings, notifications, started >>

\* await prisma.conversation.create(...)
CreateConversation(r) ==
  /\ pc[r] = "newConversation"
  /\ conversations' = Append(conversations, NewConversation(frame[r]))
  /\ Continue(r, "notification",
       [frame[r] EXCEPT !.conversation = NewConversation(frame[r])])
  /\ UNCHANGED << fixed, studentProfiles, bookings, notifications, started >>

\* NextResponse.json(booking)
Created(b) == [status |-> 200, booking |-> b]

\* The same response after the inner catch ran: console.log has logged the
\* failure of the notification write.
CreatedUnnotified(b) ==
  [status |-> 200, booking |-> b, logged |-> "Failed to create notification"]

\* CreateNotification without the inner try: a failure of the write reaches
\* the handler's catch.
CreateNotificationUncaught(r) ==
  /\ pc[r] = "notification"
  /\ \/ /\ notifications' =
             Append(notifications,
                    [type |-> "booking", userId |-> frame[r].tutor.userId])
        /\ Return(r, Created(frame[r].booking))
     \/ /\ UNCHANGED notifications
        /\ Return(r, InternalError("await rejected"))
  /\ UNCHANGED << fixed, studentProfiles, bookings, conversations, started >>

\* await prisma.notification.create(...) inside its own try, then the
\* response.  A failure of the write is caught and logged.
CreateNotification(r) ==
  /\ pc[r] = "notification"
  /\ \/ /\ notifications' =
             Append(notifications,
                    [type |-> "booking", userId |-> frame[r].tutor.userId])
        /\ Return(r, Created(frame[r].booking))
     \/ /\ UNCHANGED notifications
        /\ Return(r, CreatedUnnotified(frame[r].booking))
  /\ UNCHANGED << fixed, studentProfiles, bookings, conversations, started >>

\* The awaits whose rejection the handler's catch turns into the 500.
Throwing ==
  { "body", "profile", "newProfile", "tutor", "conflict", "create",
    "conversation", "newConversation" }

\* An await rejects (the store is unreachable, the body is no JSON): the
\* catch block answers 500.
Throw(r) ==
  /\ pc[r] \in Throwing
  /\ Return(r, InternalError("await rejected"))
  /\ UNCHANGED << fixed, store, started >>

Next ==
  \E r \in Requests :
    \/ Receive(r)
    \/ Authenticate(r)
    \/ ReadBody(r)
    \/ FindStudentProfile(r)
    \/ CreateStudentProfile(r)
    \/ FindTutor(r)
    \/ FindConflict(r)
    \/ CreateBooking(r)
    \/ FindConversation(r)
    \/ CreateConversation(r)
    \/ CreateNotification(r)
    \/ Throw(r)

\* The server handles the requests concurrently: their steps interleave.
Init == InitWith({ -330 }, { ListOne, MapString }, MaxRequests)

Spec == Init /\ [][Next]_vars

\* The server handles one request at a time, for every stored schedule.
SerialInit == InitWith(ServerOffsets, Schedules, 1)

SerialSpec == SerialInit /\ [][Next]_vars

\* The values the tutor's accept and reject flows give a booking's status.
Statuses == { "accepted", "rejected" }

\* The tutor answers a pending booking: its status changes, nothing else.
TutorResponds(i) ==
  /\ i \in DOMAIN bookings
  /\ bookings[i].status = "pending"
  /\ \E status \in Statuses :
       bookings' = [bookings EXCEPT ![i].status = status]
  /\ UNCHANGED << fixed, studentProfiles, conversations, notifications,
                  started, pc, frame, response >>

LifecycleNext == Next \/ \E i \in Requests : TutorResponds(i)

\* The server handles one request at a time while tutors answer the
\* bookings made so far.
LifecycleInit == InitWith({ 0 }, { ListOne }, 1)

LifecycleSpec == LifecycleInit /\ [][LifecycleNext]_vars

\* The server handles one request at a time; tutor t1 has stored a schedule
\* whose slot bounds have no leading zero.
UnpaddedInit == InitWith(ServerOffsets, { MapUnpadded, MapUnpaddedObject }, 1)

UnpaddedSpec == UnpaddedInit /\ [][Next]_vars

(***************************************************************************)
(* The PDF text extractors: extractPDFText of the summarization route and  *)
(* extractSpecificPages, called by testPDFExtraction, of the extraction    *)
(* test route.  pdf-parse yields the page count and the text of the whole  *)
(* document; both extractors cut the non-blank lines of the text into      *)
(* equal runs and take run p for page p.                                   *)
(*                                                                         *)
(* A text is a sequence of pieces.  Every character of the document, every *)
(* digit of a number and every space or newline that can end up at an end  *)
(* of a string is a piece of its own; a literal of the source between      *)
(* them (such as "[Page ") is one piece.                                   *)
(***************************************************************************)

\* The characters String.prototype.trim removes.
Whitespace == { " ", "\n" }

\* s.trim().length === 0, and !s.trim()
IsBlank(s) == \A i \in DOMAIN s : s[i] \in Whitespace

RECURSIVE TrimStart(_)
TrimStart(s) ==
  IF s # << >> /\ Head(s) \in Whitespace THEN TrimStart(Tail(s)) ELSE s

RECURSIVE TrimEnd(_)
TrimEnd(s) ==
  IF s # << >> /\ s[Len(s)] \in Whitespace
    THEN TrimEnd(SubSeq(s, 1, Len(s) - 1))
    ELSE s

\* s.trim()
Trim(s) == TrimEnd(TrimStart(s))

\* lines.join(sep)
RECURSIVE Join(_, _)
Join(lines, sep) ==
  IF lines = << >> THEN << >>
  ELSE IF Len(lines) = 1 THEN lines[1]
  ELSE lines[1] \o << sep >> \o Join(Tail(lines), sep)

\* The index Array.prototype.slice makes of an argument: a negative one
\* counts from the end, and both are clamped to 0..len.
RelativeIndex(k, len) ==
  IF k < 0 THEN (IF len + k > 0 THEN len + k ELSE 0)
  ELSE IF k < len THEN k ELSE len

\* a.slice(start, end), with 0-based arguments
Slice(a, start, end) ==
  LET from == RelativeIndex(start, Len(a))
      to == RelativeIndex(end, Len(a))
  IN  IF from < to THEN SubSeq(a, from + 1, to) ELSE << >>

\* `${n}` for an integer n
IntToStr(n) == IF n < 0 THEN << "-" >> \o NumToStr(-n) ELSE NumToStr(n)

\* Math.min and Math.max
Min(a, b) == IF a < b THEN a ELSE b

Max(a, b) == IF a > b THEN a ELSE b

\* fullText.split('\n').filter(line => line.trim().length > 0)
TextLines(fullText) ==
  SelectSeq(Split(fullText, "\n"), LAMBDA line : ~IsBlank(line))

\* pdfData.numpages || 1
NumpagesOr1(numpages) == IF numpages = 0 THEN 1 ELSE numpages

\* The estimate with the quotient rounded up.
EstimatedLinesPerPageRoundedUp(textLines, totalPages) ==
  Max(1, (Len(textLines) + totalPages - 1) \div totalPages)

\* Math.max(1, Math.floor(textLines.length / totalPages))
EstimatedLinesPerPage(textLines, totalPages) ==
  Max(1, Len(textLines) \div totalPages)

\* textLines.slice(startLine, endLine) for page pageNum
PageLines(textLines, totalPages, pageNum) ==
  LET estimatedLinesPerPage == EstimatedLinesPerPage(textLines, totalPages)
      startLine == (pageNum - 1) * estimatedLinesPerPage
      endLine == Min(pageNum * estimatedLinesPerPage, Len(textLines))
  IN  Slice(textLines, startLine, endLine)

\* textLines.slice(startLine, endLine).join('\n') for page pageNum
PageText(textLines, totalPages, pageNum) ==
  LET estimatedLinesPerPage == EstimatedLinesPerPage(textLines, totalPages)
      startLine == (pageNum - 1) * estimatedLinesPerPage
      endLine == Min(pageNum * estimatedLinesPerPage, Len(textLines))
  IN  Join(Slice(textLines, startLine, endLine), "\n")

\* `\n[Page ${pageNum} not available - PDF has only ${totalPages} pages]\n`
NotAvailable(pageNum, totalPages) ==
  << "\n", "[Page " >> \o IntToStr(pageNum)
    \o << " not available - PDF has only " >> \o IntToStr(totalPages)
    \o << " pages]", "\n" >>

\* `\n[Page ${pageNum} appears to have no text content]\n`
NoTextContent(pageNum) ==
  << "\n", "[Page " >> \o IntToStr(pageNum)
    \o << " appears to have no text content]", "\n" >>

\* The range test of extractPDFText with the last page left out.
PDFTextPageMissingLastPage(totalPages, pageNum) ==
  pageNum >= totalPages \/ pageNum < 1

\* pageNum > totalPages || pageNum < 1
PDFTextPageMissing(totalPages, pageNum) ==
  pageNum > totalPages \/ pageNum < 1

\* What one pass of the loop of extractPDFText adds to extractedContent.
PDFTextBlock(textLines, totalPages, pageNum) ==
  IF PDFTextPageMissing(totalPages, pageNum)
    THEN NotAvailable(pageNum, totalPages)
  ELSE IF ~IsBlank(PageText(textLines, totalPages, pageNum))
    THEN << "\n", "--- Page " >> \o IntToStr(pageNum) \o << " ---", "\n" >>
           \o PageText(textLines, totalPages, pageNum) \o << "\n" >>
  ELSE NoTextContent(pageNum)

\* pageNum > totalPages
SpecificPageMissing(totalPages, pageNum) == pageNum > totalPages

\* What one pass of the loop of extractSpecificPages adds to selectedText.
SpecificPagesBlock(textLines, totalPages, pageNum) ==
  IF SpecificPageMissing(totalPages, pageNum)
    THEN NotAvailable(pageNum, totalPages)
  ELSE IF ~IsBlank(PageText(textLines, totalPages, pageNum))
    THEN << "\n", "--- Page " >> \o IntToStr(pageNum)
           \o << " Content ---", "\n" >>
           \o PageText(textLines, totalPages, pageNum) \o << "\n" >>
  ELSE NoTextContent(pageNum)

NoContentForPages == << "No text content found for selected pages" >>

\* The return without the fallback: the trimmed content as it is.
TrimmedContent(content) == Trim(content)

\* content.trim() || 'No text content found for selected pages'
FinalContent(content) ==
  IF Trim(content) # << >> THEN Trim(content) ELSE NoContentForPages

(***************************************************************************)
(* The documents and the page lists of the calls.                          *)
(***************************************************************************)

\* The longest document, in lines of its text, blank ones included.
MaxLines == 4

\* The most pages pdf-parse reports for a document.
MaxPages == 3

\* The longest list of requested pages.
MaxPageList == 2

\* A line of the document holds text or is blank.
LineKinds == { "text", "blank" }

\* Line k of a document.  A line of text is its number, so that every line
\* differs, and every second one has whitespace around it.
Line(kind, k) ==
  CASE kind = "text" /\ k % 2 = 1 -> << DigitChars[k + 1] >>
    [] kind = "text" /\ k % 2 = 0 -> << " ", DigitChars[k + 1], " " >>
    [] kind = "blank" -> << " " >>

\* pdfData.text: the lines joined by newlines; no lines give ''.
Texts ==
  { Join([k \in DOMAIN kinds |-> Line(kinds[k], k)], "\n") :
      kinds \in UNION { [1..n -> LineKinds] : n \in 0..MaxLines } }

\* What pdf-parse resolves with: the page count and the text.
PdfDatas == [numpages : 1..MaxPages, text : Texts]

\* The page numbers a caller asks for: below, in and above every range.
PageNumbers == -1..(MaxPages + 1)

\* The pages argument.
PageLists == UNION { [1..n -> PageNumbers] : n \in 0..MaxPageList }

(***************************************************************************)
(* The calls.  A call is one of the two extractors running once: the file  *)
(* check, the await of pdf-parse with the checks of its text, one step per *)
(* pass of the loop over the requested pages, and the return.              *)
(***************************************************************************)

\* The variables of the booking handler, which no extractor touches.
handler ==
  << serverOffset, tutorProfiles, studentProfiles, bookings, conversations,
     notifications, limit, started, pc, frame, response >>

\* The locals of a call that has found its file and awaits pdf-parse.
Parsing(fn, pages) ==
  [fn |-> fn, step |-> "parse", pages |-> pages, pdfData |-> Null,
   totalPages |-> 0, textLines |-> << >>, next |-> 1, pageNum |-> 0,
   pageText |-> Null, content |-> << >>, outcome |-> Null]

\* throw new Error(message), out of the call
Thrown(message) == [kind |-> "thrown", message |-> message]

\* return value
Returned(value) == [kind |-> "returned", value |-> value]

\* The call ends with the outcome.
Ends(outcome) ==
  extraction' = [extraction EXCEPT !.step = "done", !.outcome = outcome]

\* extractPDFText(pdfPath, pages) up to the await: the file is looked up
\* and read.
ExtractPDFText ==
  /\ extraction.step = "idle"
  /\ \E pages \in PageLists, exists \in BOOLEAN :
       extraction' =
         IF exists
           THEN Parsing("extractPDFText", pages)
           ELSE [Parsing("extractPDFText", pages) EXCEPT
                   !.step = "done", !.outcome = Thrown("PDF file not found")]
  /\ UNCHANGED << handler, summarize >>

\* await pdfParse(pdfBuffer) in extractPDFText and the checks of the text
\* that follow, up to the loop.
ParsePDFText ==
  /\ extraction.fn = "extractPDFText"
  /\ extraction.step = "parse"
  /\ \/ Ends(Thrown("pdf-parse rejected"))
     \/ \E pdfData \in PdfDatas :
          IF pdfData.text = << >> \/ IsBlank(pdfData.text)
            THEN extraction' =
                   [extraction EXCEPT
                      !.pdfData = pdfData, !.step = "done",
                      !.outcome = Thrown("No text content found in PDF")]
          ELSE IF Len(TextLines(pdfData.text)) = 0
            THEN extraction' =
                   [extraction EXCEPT
                      !.pdfData = pdfData, !.step = "done",
                      !.outcome = Thrown("No readable text found in PDF")]
          ELSE extraction' =
                 [extraction EXCEPT
                    !.pdfData = pdfData, !.step = "loop",
                    !.totalPages = pdfData.numpages,
                    !.textLines = TextLines(pdfData.text)]
  /\ UNCHANGED << handler, summarize >>

\* One pass of for (const pageNum of pages) in extractPDFText.
ExtractPDFTextPage ==
  /\ extraction.fn = "extractPDFText"
  /\ extraction.step = "loop"
  /\ extraction.next <= Len(extraction.pages)
  /\ LET pageNum == extraction.pages[extraction.next]
     IN  extraction' =
           [extraction EXCEPT
              !.next = @ + 1,
              !.pageNum = pageNum,
              !.pageText =
                IF PDFTextPageMissing(extraction.totalPages, pageNum)
                  THEN Null
                  ELSE PageText(extraction.textLines, extraction.totalPages,
                                pageNum),
              !.content =
                @ \o PDFTextBlock(extraction.textLines, extraction.totalPages,
                                  pageNum)]
  /\ UNCHANGED << handler, summarize >>

\* The loop of extractPDFText is over: return finalContent.
ExtractPDFTextReturn ==
  /\ extraction.fn = "extractPDFText"
  /\ extraction.step = "loop"
  /\ extraction.next > Len(extraction.pages)
  /\ Ends(Returned(FinalContent(extraction.content)))
  /\ UNCHANGED << handler, summarize >>

\* testPDFExtraction(pdfPath, pages) up to the await: the file is looked
\* up and read.
TestPDFExtraction ==
  /\ extraction.step = "idle"
  /\ \E pages \in PageLists, exists \in BOOLEAN :
       extraction' =
         IF exists
           THEN Parsing("extractSpecificPages", pages)
           ELSE [Parsing("extractSpecificPages", pages) EXCEPT
                   !.step = "done",
                   !.outcome = Thrown("PDF extraction failed")]
  /\ UNCHANGED << handler, summarize >>

\* await pdfParse(pdfBuffer) in testPDFExtraction, the check of the text,
\* and the call of extractSpecificPages(pdfData, pages) up to its loop.
ExtractSpecificPages ==
  /\ extraction.fn = "extractSpecificPages"
  /\ extraction.step = "parse"
  /\ \/ Ends(Thrown("PDF extraction failed"))
     \/ \E pdfData \in PdfDatas :
          IF pdfData.text = << >> \/ IsBlank(pdfData.text)
            THEN extraction' =
                   [extraction EXCEPT
                      !.pdfData = pdfData, !.step = "done",
                      !.outcome = [kind |-> "no_text"]]
          ELSE IF Len(TextLines(pdfData.text)) = 0
            THEN extraction' =
                   [extraction EXCEPT
                      !.pdfData = pdfData, !.step = "done",
                      !.outcome =
                        Returned(<< "No readable text lines found" >>)]
          ELSE extraction' =
                 [extraction EXCEPT
                    !.pdfData = pdfData, !.step = "loop",
                    !.totalPages = NumpagesOr1(pdfData.numpages),
                    !.textLines = TextLines(pdfData.text)]
  /\ UNCHANGED << handler, summarize >>

\* One pass of for (const pageNum of pages) in extractSpecificPages.
ExtractSpecificPagesPage ==
  /\ extraction.fn = "extractSpecificPages"
  /\ extraction.step = "loop"
  /\ extraction.next <= Len(extraction.pages)
  /\ LET pageNum == extraction.pages[extraction.next]
     IN  extraction' =
           [extraction EXCEPT
              !.next = @ + 1,
              !.pageNum = pageNum,
              !.pageText =
                IF SpecificPageMissing(extraction.totalPages, pageNum)
                  THEN Null
                  ELSE PageText(extraction.textLines, extraction.totalPages,
                                pageNum),
              !.content =
                @ \o SpecificPagesBlock(extraction.textLines,
                                        extraction.totalPages, pageNum)]
  /\ UNCHANGED << handler, summarize >>

\* The loop of extractSpecificPages is over: return the trimmed text or
\* the fallback.
ExtractSpecificPagesReturn ==
  /\ extraction.fn = "extractSpecificPages"
  /\ extraction.step = "loop"
  /\ extraction.next > Len(extraction.pages)
  /\ Ends(Returned(FinalContent(extraction.content)))
  /\ UNCHANGED << handler, summarize >>

PdfNext ==
  \/ ExtractPDFText
  \/ ParsePDFText
  \/ ExtractPDFTextPage
  \/ ExtractPDFTextReturn
  \/ TestPDFExtraction
  \/ ExtractSpecificPages
  \/ ExtractSpecificPagesPage
  \/ ExtractSpecificPagesReturn

\* No booking request is handled; one extractor is called once.
PdfInit == InitWith({ 0 }, { ListOne }, 0)

PdfSpec == PdfInit /\ [][PdfNext]_vars

(***************************************************************************)
(* The summarization route: POST and handleChatRequest.  One request is    *)
(* handled; its call of extractPDFText is the call modelled above, made    *)
(* with the pages of the request.                                          *)
(***************************************************************************)

\* The pdfPath of the requests: a first chapter of class 1 English.
PdfPath == "/pdfs/class1/english/chapter1.pdf"

\* extractChapterInfoFromPath(pdfPath), for PdfPath
ChapterInfo == [class |-> "class1", subject |-> "english", chapter |-> "chapter1"]

\* The bodies of the requests: with and without pdfPath and pages, with
\* each summaryType or none, and for 'chat' with a message, with an empty
\* one and with none.
SummarizeBodies ==
  { [pages |-> << 1 >>], [pdfPath |-> PdfPath],
    [pdfPath |-> "", pages |-> << 1 >>], [pdfPath |-> PdfPath, pages |-> << >>] }
    \cup { [pdfPath |-> PdfPath, pages |-> p] : p \in PageLists \ { << >> } }
    \cup { [pdfPath |-> PdfPath, pages |-> p, summaryType |-> t] :
             p \in PageLists \ { << >> },
             t \in { "brief", "detailed", "key-points", "chat" } }
    \cup { [pdfPath |-> PdfPath, pages |-> p, summaryType |-> "chat",
            chatMessage |-> m] :
             p \in PageLists \ { << >> }, m \in { "", "What is page 1 about?" } }

\* const { ..., summaryType = 'brief', ... } = body
SummaryTypeOf(b) ==
  IF "summaryType" \in DOMAIN b THEN b.summaryType ELSE "brief"

\* A string field of the body is there and not ''.
Truthy(b, field) == field \in DOMAIN b /\ b[field] # ""

\* !pdfPath || !pages || pages.length === 0
PathOrPagesMissing(b) ==
  \/ ~Truthy(b, "pdfPath")
  \/ "pages" \notin DOMAIN b
  \/ Len(b.pages) = 0

\* summaryType === 'chat' && chatMessage
IsChatRequest(b) == SummaryTypeOf(b) = "chat" /\ Truthy(b, "chatMessage")

\* The template generateIntelligentContent has for a page of a first
\* chapter of class 1 or 2 English.
PageTemplate(pageNum) ==
  CASE pageNum = 1 -> "Unit 1 \"My Family and Me\" - Chapter 1 \"Two Little Hands\""
    [] pageNum = 2 -> "Continuation of \"Two Little Hands\" poem"
    [] OTHER -> "More activities related to body parts and actions"

\* generateIntelligentContent(chapterInfo, pages, pdfPath): a line
\* `Page ${pageNum}: ...` for each page, with an empty line between two.
GenerateIntelligentContent(pages) ==
  Join([i \in DOMAIN pages |->
          << "Page " >> \o IntToStr(pages[i])
            \o << ": ", PageTemplate(pages[i]) >>], "\n\n")

\* return NextResponse.json(...)
Answers(s, res) == summarize' = [s EXCEPT !.step = "done", !.response = res]

\* handleChatRequest(body) up to its await of extractPDFText.
HandleChatRequest(b) ==
  IF ~Truthy(b, "chatMessage")
    THEN Answers([summarize EXCEPT !.fn = "handleChatRequest", !.body = b],
                 Json(400, "Chat message is required"))
    ELSE summarize' = [summarize EXCEPT !.step = "extract",
                                        !.fn = "handleChatRequest", !.body = b]

\* POST: await request.json(), the check of pdfPath and pages, and the
\* code up to the await of extractPDFText, in POST or in handleChatRequest.
SummarizePOST ==
  /\ summarize.step = "idle"
  /\ \/ Answers([summarize EXCEPT !.fn = "POST"],
                Json(500, "Failed to generate summary"))
     \/ \E b \in SummarizeBodies :
          IF PathOrPagesMissing(b)
            THEN Answers([summarize EXCEPT !.fn = "POST", !.body = b],
                         Json(400, "PDF path and pages are required"))
          ELSE IF IsChatRequest(b) THEN HandleChatRequest(b)
          ELSE summarize' = [summarize EXCEPT !.step = "extract",
                                              !.fn = "POST", !.body = b]
  /\ UNCHANGED << extraction, handler >>

\* extractPDFText(pdfPath, pages), called with the pages of the request.
CallExtractPDFText ==
  /\ summarize.step = "extract"
  /\ ExtractPDFText
  /\ extraction'.pages = summarize.body.pages

\* What the try around the call leaves in actualContent: the text
\* extractPDFText returned or, when it threw, the generated content.
ActualContent ==
  IF extraction.outcome.kind = "returned"
    THEN extraction.outcome.value
    ELSE GenerateIntelligentContent(summarize.body.pages)

\* POSTContent without the inner try: what extractPDFText throws reaches
\* the catch of POST.
POSTContentUncaught ==
  /\ summarize.step = "extract"
  /\ summarize.fn = "POST"
  /\ extraction.step = "done"
  /\ IF extraction.outcome.kind = "returned"
       THEN summarize' = [summarize EXCEPT !.step = "completion",
                                           !.actualContent = ActualContent,
                                           !.completionCalls = @ + 1]
       ELSE Answers(summarize, Json(500, "Failed to generate summary"))
  /\ UNCHANGED << extraction, handler >>

\* POST: the await of extractPDFText is over; the try and its catch, the
\* prompts, and the call of openai.chat.completions.create.
POSTContent ==
  /\ summarize.step = "extract"
  /\ summarize.fn = "POST"
  /\ extraction.step = "done"
  /\ summarize' = [summarize EXCEPT !.step = "completion",
                                    !.actualContent = ActualContent,
                                    !.completionCalls = @ + 1]
  /\ UNCHANGED << extraction, handler >>

\* handleChatRequest: the same, with the tutor's prompt.
HandleChatContent ==
  /\ summarize.step = "extract"
  /\ summarize.fn = "handleChatRequest"
  /\ extraction.step = "done"
  /\ summarize' = [summarize EXCEPT !.step = "completion",
                                    !.actualContent = ActualContent,
                                    !.completionCalls = @ + 1]
  /\ UNCHANGED << extraction, handler >>

\* The answer of POST with a summary.
Summarized(b) ==
  [status |-> 200, success |-> TRUE, summary |-> "summary",
   pages |-> b.pages, summaryType |-> SummaryTypeOf(b), pdfPath |-> b.pdfPath,
   chapterInfo |-> ChapterInfo]

\* The answer of handleChatRequest with a response.
Chatted(b) ==
  [status |-> 200, success |-> TRUE, response |-> "response",
   pages |-> b.pages, pdfPath |-> b.pdfPath, chapterInfo |-> ChapterInfo,
   type |-> "chat"]

\* POST: the await of the completion is over: a summary, no content, or a
\* rejection, for which the catch tells a missing API key from the rest.
POSTCompletion ==
  /\ summarize.step = "completion"
  /\ summarize.fn = "POST"
  /\ \/ Answers([summarize EXCEPT !.completion = "content"],
                Summarized(summarize.body))
     \/ Answers([summarize EXCEPT !.completion = "empty"],
                Json(500, "Failed to generate summary"))
     \/ \E error \in { "OpenAI API key not configured",
                       "Failed to generate summary" } :
          Answers([summarize EXCEPT !.completion = "rejected"],
                  Json(500, error))
  /\ UNCHANGED << extraction, handler >>

\* handleChatRequest: the await of the completion is over.
HandleChatCompletion ==
  /\ summarize.step = "completion"
  /\ summarize.fn = "handleChatRequest"
  /\ \/ Answers([summarize EXCEPT !.completion = "content"],
                Chatted(summarize.body))
     \/ Answers([summarize EXCEPT !.completion = "empty"],
                Json(500, "Failed to generate response"))
     \/ Answers([summarize EXCEPT !.completion = "rejected"],
                Json(500, "Failed to process chat message"))
  /\ UNCHANGED << extraction, handler >>

SummarizeNext ==
  \/ SummarizePOST
  \/ CallExtractPDFText
  \/ ParsePDFText
  \/ ExtractPDFTextPage
  \/ ExtractPDFTextReturn
  \/ POSTContent
  \/ HandleChatContent
  \/ POSTCompletion
  \/ HandleChatCompletion

\* No booking request is handled; one summarization request is.
SummarizeInit == InitWith({ 0 }, { ListOne }, 0)

SummarizeSpec == SummarizeInit /\ [][SummarizeNext]_vars

(***************************************************************************)
(* Properties.  What the specification expects is stated in minutes since  *)
(* midnight and in the slots' own bounds, not with the handler's string    *)
(* operations.                                                             *)
(***************************************************************************)

\* The minutes since midnight that an "HH:MM" time names.
MinutesOf(time) ==
  ParseInt(Elem(Split(time, ":"), 1)).n * 60
    + ParseInt(Elem(Split(time, ":"), 2)).n

\* The bounds a map-form slot declares, whichever way it is written.
BoundsOf(slot) ==
  IF slot.kind = "string"
    THEN LET dash == CHOOSE i \in DOMAIN slot.text : slot.text[i] = "-"
         IN  [start |-> SubSeq(slot.text, 1, dash - 1),
              end |-> SubSeq(slot.text, dash + 1, Len(slot.text))]
  ELSE IF "start" \in DOMAIN slot.props
    THEN [start |-> slot.props.start, end |-> slot.props.end]
  ELSE [start |-> slot.props.startTime, end |-> slot.props.endTime]

\* A time of day lies in the half-open window [start, end).
Within(at, start, end) ==
  MinutesOf(start) <= MinutesOf(at) /\ MinutesOf(at) < MinutesOf(end)

\* In this step request r's handler looked its tutor up, found it, and ran
\* the availability check.
CheckedAvailability(r) ==
  /\ pc[r] = "tutor"
  /\ pc'[r] # "tutor"
  /\ frame[r].body.tutorId \in DOMAIN tutorProfiles
  /\ response'[r] # InternalError("await rejected")

\* The check found the tutor available: the handler goes on.
Passed(r) == pc'[r] = "conflict" /\ frame'[r].isAvailable

\* The handler answered the 400 rejection of the availability check.
Rejected(r) ==
  /\ pc'[r] = "done"
  /\ response'[r].status = 400
  /\ response'[r].error = "Tutor is not available at this time."

\* The schedule, day and time of day the check of request r works on.
ScheduleOf(r) == tutorProfiles[frame[r].body.tutorId].availability

RequestedDay(r) == DayOfWeek(frame[r].body.startTime, serverOffset)

RequestedAt(r) == BookingStartTime(frame[r].body.startTime, serverOffset)

\* C1: for every existing booking [s2,e2) of the tutor and every requested
\* interval [s1,e1) with s1 < e1, the conflict query of a request about to
\* run it matches the booking if and only if s1 < e2 and s2 < e1.
C1_ConflictIffOverlap ==
  \A r \in Requests :
    (pc[r] = "conflict" /\ frame[r].body.startTime < frame[r].body.endTime) =>
      \A i \in DOMAIN bookings :
        (/\ bookings[i].tutorId = frame[r].body.tutorId
         /\ bookings[i].startTime < bookings[i].endTime) =>
          (i \in ConflictRows(frame[r].body.tutorId, frame[r].body.startTime,
                              frame[r].body.endTime)
             <=> (/\ frame[r].body.startTime < bookings[i].endTime
                  /\ bookings[i].startTime < frame[r].body.endTime))

\* C2: the insert is a step of its own that no transaction or lock ties to
\* the conflict query: a request that passed the query leaves the insert
\* step only by inserting its booking (or by the store failing), whatever
\* other requests inserted meanwhile.
C2_InsertAfterCheckIsUnconditional ==
  [][\A r \in Requests :
       (/\ pc[r] = "create"
        /\ pc'[r] # "create"
        /\ response'[r] # InternalError("await rejected")) =>
         bookings' = Append(bookings, NewBooking(frame[r]))]_vars

\* C2, the reachable state: two bookings of one tutor, the later one for an
\* interval on which the conflict query matches the earlier one.
C2_DoubleBooking ==
  \E i, j \in DOMAIN bookings :
    /\ i < j
    /\ bookings[i].startTime < bookings[i].endTime
    /\ bookings[j].startTime < bookings[j].endTime
    /\ ConflictWhere(bookings[i], bookings[j].tutorId, bookings[j].startTime,
                     bookings[j].endTime)

\* Some entry of a list-form schedule is for the day and its window holds
\* the time of day.
ListCovers(items, day, at) ==
  \E i \in DOMAIN items :
    /\ items[i].dayOfWeek = day
    /\ Within(at, items[i].startTime, items[i].endTime)

\* C3: for a list-form schedule the derived day and time are available if
\* and only if some entry is for that day with startTime <= time < endTime;
\* one matching entry suffices, other entries do not matter.
C3_ListFormAvailability ==
  [][\A r \in Requests :
       (CheckedAvailability(r) /\ ScheduleOf(r).kind = "array") =>
         LET covered == ListCovers(ScheduleOf(r).items, RequestedDay(r),
                                   RequestedAt(r))
         IN  /\ Passed(r) <=> covered
             /\ Rejected(r) <=> ~covered]_vars

\* C3, its case: a request passed the check on the list with adjacent,
\* duplicate and overlapping entries.
C3_ListFormPassed ==
  \E r \in Requests :
    /\ pc[r] = "conflict"
    /\ frame[r].isAvailable
    /\ frame[r].tutor.availability = ListMany

\* The entries of a list-form schedule that end at the requested time on
\* the requested day.
EndingAt(items, day, at) ==
  { i \in DOMAIN items : items[i].dayOfWeek = day /\ items[i].endTime = at }

\* C4 as claimed: a request on S.dayOfWeek at exactly S.endTime is reported
\* unavailable, whatever other slots the list-form schedule declares.
C4_SlotEndAlwaysUnavailable ==
  [][\A r \in Requests :
       (/\ CheckedAvailability(r)
        /\ ScheduleOf(r).kind = "array"
        /\ EndingAt(ScheduleOf(r).items, RequestedDay(r), RequestedAt(r)) # {})
         => Rejected(r)]_vars

\* C4 as amended: slot S does not make a request at exactly S.endTime
\* available; the request is reported unavailable unless another entry of
\* that day holds the time in its own window.
C4_SlotEndUnavailableUnlessOtherSlot ==
  [][\A r \in Requests :
       (CheckedAvailability(r) /\ ScheduleOf(r).kind = "array") =>
         \A i \in EndingAt(ScheduleOf(r).items, RequestedDay(r), RequestedAt(r)) :
           LET others == [j \in DOMAIN ScheduleOf(r).items \ {i}
                            |-> ScheduleOf(r).items[j]]
           IN  /\ Rejected(r) <=>
                    ~ListCovers(others, RequestedDay(r), RequestedAt(r))
               /\ Passed(r) <=>
                    ListCovers(others, RequestedDay(r), RequestedAt(r))]_vars

\* C4, its case: a request that starts exactly at the end of a declared
\* entry of its day went through the check.
C4_RequestAtSlotEnd ==
  \E r \in Requests :
    /\ pc[r] = "conflict"
    /\ frame[r].tutor.availability.kind = "array"
    /\ EndingAt(frame[r].tutor.availability.items,
                DayOfWeek(frame[r].body.startTime, serverOffset),
                BookingStartTime(frame[r].body.startTime, serverOffset)) # {}

\* The day of a map-form schedule is open: its entry exists, has
\* available = true and has a slots list.
OpenDay(props, name) ==
  /\ name \in DOMAIN props
  /\ props[name].available = TRUE
  /\ "slots" \in DOMAIN props[name]

\* The day is open, lists at least one slot, and the window of some slot
\* holds the time of day.
MapCovers(props, name, at) ==
  /\ OpenDay(props, name)
  /\ props[name].slots # << >>
  /\ \E i \in DOMAIN props[name].slots :
       Within(at, BoundsOf(props[name].slots[i]).start,
                  BoundsOf(props[name].slots[i]).end)

\* C5: for a map-form schedule the derived day and time are available if
\* and only if the entry under the day's name exists, has available = true,
\* has a non-empty slots list and some slot, in whichever form it is
\* written, has start <= time < end.
C5_MapFormAvailability ==
  [][\A r \in Requests :
       (CheckedAvailability(r) /\ ScheduleOf(r).kind = "object") =>
         LET covered == MapCovers(ScheduleOf(r).props,
                                  DayName(RequestedDay(r)), RequestedAt(r))
         IN  /\ Passed(r) <=> covered
             /\ Rejected(r) <=> ~covered]_vars

\* C5, its case: a request for Tuesday was rejected by the schedule whose
\* Tuesday has available = false and lists a slot (the answer names Monday,
\* the only open day of that schedule), after the check ran.
C5_ClosedDayRejected ==
  \E r \in Requests :
    /\ pc[r] = "done"
    /\ tutorProfiles["t1"].availability = MapObject
    /\ response[r].status = 400
    /\ "reason" \in DOMAIN response[r]
    /\ response[r].reason = [kind |-> "days", items |-> << "Monday" >>]

\* A slot written again in one of the three forms.
InForm(slot, form) ==
  CASE form = "string" -> StringSlot(BoundsOf(slot).start, BoundsOf(slot).end)
    [] form = "object" -> ObjectSlot(BoundsOf(slot).start, BoundsOf(slot).end)
    [] form = "long" ->
         LongObjectSlot(BoundsOf(slot).start, BoundsOf(slot).end)

\* A map-form schedule with every slot written in the form.
Rewritten(schedule, form) ==
  [schedule EXCEPT
     !.props =
       [name \in DOMAIN schedule.props |->
          IF "slots" \in DOMAIN schedule.props[name]
            THEN [schedule.props[name] EXCEPT
                    !.slots = [i \in DOMAIN schedule.props[name].slots |->
                                 InForm(schedule.props[name].slots[i], form)]]
            ELSE schedule.props[name]]]

\* C6: the decision the handler takes on a map-form schedule is the one it
\* takes on the same schedule with its slots written as "A-B", as
\* {start: A, end: B} or as {startTime: A, endTime: B}.
C6_SlotFormsAgree ==
  [][\A r \in Requests :
       (CheckedAvailability(r) /\ ScheduleOf(r).kind = "object") =>
         \A form \in {"string", "object", "long"} :
           Passed(r) <=> IsAvailable(Rewritten(ScheduleOf(r), form),
                                     RequestedDay(r), RequestedAt(r))]_vars

\* C6, its case: a request passed the check on a schedule whose slots are
\* {startTime, endTime} objects.
C6_LongObjectSlotPassed ==
  \E r \in Requests :
    /\ pc[r] = "conflict"
    /\ frame[r].isAvailable
    /\ frame[r].tutor.availability = MapLongObject

\* C7: with a null schedule every request that reaches the availability
\* check gets the 400 rejection with a reason, inserts no booking and does
\* not end in the 500 of the catch block.
C7_NullScheduleIsRejected ==
  [][\A r \in Requests :
       (CheckedAvailability(r) /\ ScheduleOf(r).kind = "null") =>
         /\ Rejected(r)
         /\ "reason" \in DOMAIN response'[r]
         /\ bookings' = bookings]_vars

\* The number of slots a schedule declares for a day: the entries of the
\* day in a list, the slots of the day, when it is open, in a map.
DeclaredSlots(schedule, day) ==
  IF schedule.kind = "array"
    THEN Cardinality({ i \in DOMAIN schedule.items :
                         schedule.items[i].dayOfWeek = day })
  ELSE IF OpenDay(schedule.props, DayName(day))
    THEN Len(schedule.props[DayName(day)].slots)
  ELSE 0

\* C8: the rejection lists the slots of the requested day when that day
\* declares at least one, and otherwise the names of exactly the days that
\* declare at least one, for a list-form and for a map-form schedule.
C8_RejectionListsSlotsOrDays ==
  [][\A r \in Requests :
       (CheckedAvailability(r) /\ Rejected(r)) =>
         LET reason == response'[r].reason
         IN  IF DeclaredSlots(ScheduleOf(r), RequestedDay(r)) > 0
               THEN /\ reason.kind = "slots"
                    /\ Len(reason.items) =
                         DeclaredSlots(ScheduleOf(r), RequestedDay(r))
               ELSE /\ reason.kind = "days"
                    /\ { reason.items[i] : i \in DOMAIN reason.items } =
                         { Capitalize(DayName(d)) : d \in
                             { e \in 0..6 : DeclaredSlots(ScheduleOf(r), e) > 0 } }]_vars

\* 'h:mm AM/PM' of an "HH:MM" time: 00 is 12 AM, 12 is 12 PM, 13..23 are
\* 1..11 PM, the minutes are kept.
TwelveHour(time) ==
  LET hour == MinutesOf(time) \div 60
  IN  NumToStr(((hour + 11) % 12) + 1) \o << ":" >>
        \o Elem(Split(time, ":"), 2) \o << " " >>
        \o (IF hour < 12 THEN << "A", "M" >> ELSE << "P", "M" >>)

\* C9: in the rejection every slot of the requested day is rendered as
\* 'h:mm AM/PM - h:mm AM/PM' from its own start and end, in each of the
\* three forms the availability check accepts.
C9_SlotsRenderedTwelveHour ==
  [][\A r \in Requests :
       (/\ CheckedAvailability(r)
        /\ Rejected(r)
        /\ ScheduleOf(r).kind = "object"
        /\ DeclaredSlots(ScheduleOf(r), RequestedDay(r)) > 0) =>
         LET slots == ScheduleOf(r).props[DayName(RequestedDay(r))].slots
             items == response'[r].reason.items
         IN  /\ response'[r].reason.kind = "slots"
             /\ DOMAIN items = DOMAIN slots
             /\ \A i \in DOMAIN slots :
                  items[i] = TwelveHour(BoundsOf(slots[i]).start)
                               \o << " ", "-", " " >>
                               \o TwelveHour(BoundsOf(slots[i]).end)]_vars

\* C10: a booking row is inserted only by the step of a request whose
\* caller is a user with role STUDENT and a student profile in the store,
\* whose three fields are present, whose tutor exists, whose start passed
\* the availability check and whose conflict query returned null; the row
\* has status 'pending', the request's tutorId and the profile's id.
C10_InsertOnlyAfterAllChecks ==
  [][bookings' # bookings =>
       \E r \in Requests :
         /\ pc[r] = "create"
         /\ frame[r].user \in Users
         /\ frame[r].user.role = "STUDENT"
         /\ frame[r].studentProfile \in studentProfiles
         /\ frame[r].studentProfile.userId = frame[r].user.id
         /\ DOMAIN frame[r].body = {"tutorId", "startTime", "endTime"}
         /\ frame[r].body.tutorId \in DOMAIN tutorProfiles
         /\ frame[r].tutor = tutorProfiles[frame[r].body.tutorId]
         /\ frame[r].isAvailable
         /\ IsAvailable(frame[r].tutor.availability, RequestedDay(r),
                        RequestedAt(r))
         /\ frame[r].existingBooking = Null
         /\ Len(bookings') = Len(bookings) + 1
         /\ SubSeq(bookings', 1, Len(bookings)) = bookings
         /\ bookings'[Len(bookings')].status = "pending"
         /\ bookings'[Len(bookings')].tutorId = frame[r].body.tutorId
         /\ bookings'[Len(bookings')].studentId = frame[r].studentProfile.id]_vars

\* C10, its case: a request has just inserted its booking, the second row
\* of the table.
C10_BookingInserted ==
  \E r \in Requests :
    /\ pc[r] = "conversation"
    /\ Len(bookings) = 2
    /\ frame[r].booking = bookings[2]

\* In this step request r's handler ran the conflict query and checked what
\* it returned.
CheckedConflict(r) ==
  /\ pc[r] = "conflict"
  /\ pc'[r] # "conflict"
  /\ response'[r] # InternalError("await rejected")

\* The booking as it was when created: with status 'pending'.
AsPending(b) == [b EXCEPT !.status = "pending"]

\* C11: the conflict check treats every booking of the tutor as it would
\* treat the same booking with status 'pending': the request is rejected
\* with 'This time slot is already booked' if and only if the query would
\* match some booking were it still pending, and goes on to the insert
\* otherwise.
C11_ConflictIgnoresStatus ==
  [][\A r \in Requests :
       CheckedConflict(r) =>
         LET counted ==
               { i \in DOMAIN bookings :
                   ConflictWhere(AsPending(bookings[i]), frame[r].body.tutorId,
                                 frame[r].body.startTime, frame[r].body.endTime) }
         IN  /\ counted # {} => pc'[r] = "done" /\ response'[r] = Conflict
             /\ counted = {} => pc'[r] = "create"]_vars

\* C11, its case: a request is about to run the conflict query for an
\* interval that overlaps bookings of its tutor none of which is pending
\* any more.
C11_OverlapsAnsweredBooking ==
  \E r \in Requests :
    /\ pc[r] = "conflict"
    /\ \E i \in DOMAIN bookings :
         /\ bookings[i].tutorId = frame[r].body.tutorId
         /\ bookings[i].startTime <= frame[r].body.startTime
         /\ frame[r].body.startTime < bookings[i].endTime
    /\ \A i \in DOMAIN bookings : bookings[i].status \in Statuses

\* The conversations between a student and a tutor.
Between(studentId, tutorId) ==
  { i \in DOMAIN conversations :
      /\ conversations[i].studentId = studentId
      /\ conversations[i].tutorId = tutorId }

\* C12: handled one at a time, the requests leave at most one conversation
\* per (studentId, tutorId); a conversation is inserted only by a request
\* whose booking is in the store and whose pair had none, and a request
\* whose pair has one goes on with that one.
C12_OneConversationPerPair ==
  [][/\ \A i, j \in DOMAIN conversations' :
          (/\ conversations'[i].studentId = conversations'[j].studentId
           /\ conversations'[i].tutorId = conversations'[j].tutorId) => i = j
     /\ conversations' # conversations =>
          \E r \in Requests :
            /\ pc[r] = "newConversation"
            /\ frame[r].booking \in { bookings[i] : i \in DOMAIN bookings }
            /\ Between(frame[r].studentProfile.id, frame[r].tutor.id) = {}
            /\ conversations' =
                 Append(conversations,
                        [id |-> Len(conversations) + 1,
                         studentId |-> frame[r].studentProfile.id,
                         tutorId |-> frame[r].tutor.id])
     /\ \A r \in Requests :
          (/\ pc[r] = "conversation"
           /\ pc'[r] # "conversation"
           /\ response'[r] # InternalError("await rejected")
           /\ Between(frame[r].studentProfile.id, frame[r].tutor.id) # {}) =>
            /\ pc'[r] = "notification"
            /\ conversations' = conversations
            /\ frame'[r].conversation \in
                 { conversations[i] :
                     i \in Between(frame[r].studentProfile.id, frame[r].tutor.id) }
    ]_vars

\* C12, its case: the second booking between a pair found the conversation
\* the first one created.
C12_ConversationReused ==
  \E r \in Requests :
    /\ pc[r] = "notification"
    /\ Len(bookings) = 2
    /\ bookings[1].studentId = bookings[2].studentId
    /\ bookings[1].tutorId = bookings[2].tutorId
    /\ Len(conversations) = 1
    /\ frame[r].booking = bookings[2]
    /\ frame[r].conversation = conversations[1]

\* C13: the insert of the conversation is a step of its own that nothing
\* ties to the lookup: a request that found none leaves the insert step
\* only by inserting one for its pair (or by the store failing), whatever
\* other requests inserted meanwhile.
C13_ConversationInsertIsUnconditional ==
  [][\A r \in Requests :
       (/\ pc[r] = "newConversation"
        /\ pc'[r] # "newConversation"
        /\ response'[r] # InternalError("await rejected")) =>
         /\ Len(conversations') = Len(conversations) + 1
         /\ conversations'[Len(conversations')].studentId =
              frame[r].studentProfile.id
         /\ conversations'[Len(conversations')].tutorId = frame[r].tutor.id
    ]_vars

\* C13, the reachable state: two conversations for one pair, each created
\* by a first booking between the pair.
C13_DuplicateConversations ==
  /\ Len(conversations) = 2
  /\ conversations[1].studentId = conversations[2].studentId
  /\ conversations[1].tutorId = conversations[2].tutorId
  /\ Len(bookings) = 2

\* C14: a request whose notification write fails still leaves the handler
\* with status 200 and its booking as the body; the booking and the
\* conversation it worked with stay in the store and the failure is logged.
C14_NotificationFailureStillSucceeds ==
  [][\A r \in Requests :
       (/\ pc[r] = "notification"
        /\ pc'[r] # "notification"
        /\ notifications' = notifications) =>
         /\ pc'[r] = "done"
         /\ response'[r].status = 200
         /\ response'[r].booking = frame[r].booking
         /\ response'[r].logged = "Failed to create notification"
         /\ bookings' = bookings
         /\ conversations' = conversations
         /\ \E i \in DOMAIN bookings' : bookings'[i] = frame[r].booking
         /\ \E i \in DOMAIN conversations' :
              conversations'[i] = frame[r].conversation]_vars

\* C14, its case: a request returned its booking although no notification
\* was written for it.
C14_SucceededUnnotified ==
  \E r \in Requests :
    /\ pc[r] = "done"
    /\ response[r].status = 200
    /\ "logged" \in DOMAIN response[r]
    /\ \E i \in DOMAIN bookings : bookings[i] = response[r].booking
    /\ Between(response[r].booking.studentId, response[r].booking.tutorId) # {}
    /\ notifications = << >>

\* What the browser's Date does with a wall-clock time the user picked,
\* where getTimezoneOffset() is clientOffset: the UTC instant it sends.
ClientInstant(wallClock, clientOffset) == wallClock + clientOffset

\* The wall clocks a client can have picked for an instant it sent.
WallClocks(instant) == { instant - offset : offset \in ServerOffsets }

\* C15: a client whose offset is the server's picked a wall-clock time and
\* sent its instant as startTime; the day of week and the HH:MM that the
\* handler derives from startTime are the day and the time of day of that
\* wall clock.
C15_DerivedIsPickedWallClock ==
  \A r \in Requests :
    pc[r] = "tutor" =>
      \A picked \in WallClocks(frame[r].body.startTime) :
        ClientInstant(picked, serverOffset) = frame[r].body.startTime =>
          /\ DayOfWeek(frame[r].body.startTime, serverOffset)
               = (4 + (picked \div 1440)) % 7
          /\ MinutesOf(BookingStartTime(frame[r].body.startTime, serverOffset))
               = picked % 1440

\* The windows a schedule declares for a day, each as << start, end >> in
\* minutes since midnight.
WindowsOf(schedule, day) ==
  IF schedule.kind = "array"
    THEN { << MinutesOf(schedule.items[i].startTime),
              MinutesOf(schedule.items[i].endTime) >> :
             i \in { j \in DOMAIN schedule.items :
                       schedule.items[j].dayOfWeek = day } }
  ELSE IF schedule.kind = "object" /\ OpenDay(schedule.props, DayName(day))
    THEN { << MinutesOf(BoundsOf(schedule.props[DayName(day)].slots[i]).start),
              MinutesOf(BoundsOf(schedule.props[DayName(day)].slots[i]).end) >> :
             i \in DOMAIN schedule.props[DayName(day)].slots }
  ELSE {}

\* C16: every booking in the store with startTime < endTime lies within one
\* window its tutor declares for the booking's day: the window has opened
\* when the booking starts and has not closed before the booking ends.
C16_BookingWithinWindow ==
  \A i \in DOMAIN bookings :
    bookings[i].startTime < bookings[i].endTime =>
      LET day == DayOfWeek(bookings[i].startTime, serverOffset)
          from == MinutesOf(BookingStartTime(bookings[i].startTime, serverOffset))
          to == from + (bookings[i].endTime - bookings[i].startTime)
      IN  \E window \in WindowsOf(tutorProfiles[bookings[i].tutorId].availability,
                                  day) :
            window[1] <= from /\ to <= window[2]

\* The lines with 0-based index in [from, to), in order.
LinesIn(lines, from, to) ==
  IF from < to THEN [k \in 1..(to - from) |-> lines[from + k]] ELSE << >>

\* The pass of the loop that has just run was for a page of the document.
PassedInRangePage ==
  /\ extraction.step \in {"loop", "done"}
  /\ extraction.pageNum >= 1
  /\ extraction.pageNum <= extraction.totalPages

\* C17 as claimed: the text either extractor takes for an in-range page p is
\* the N non-empty lines with index in [(p-1)*L, min(p*L, N)), joined, where
\* L = floor(N / totalPages).
C17_PageLinesByFloor ==
  PassedInRangePage =>
    LET N == Len(extraction.textLines)
        L == N \div extraction.totalPages
        p == extraction.pageNum
    IN  extraction.pageText
          = Join(LinesIn(extraction.textLines, (p - 1) * L,
                         IF p * L < N THEN p * L ELSE N), "\n")

\* C17 as amended: the same with L = max(1, floor(N / totalPages)), so that
\* a document with fewer lines than pages gives one line to each of its
\* first N pages.
C17_PageLinesByFloorAtLeastOne ==
  PassedInRangePage =>
    LET N == Len(extraction.textLines)
        floor == N \div extraction.totalPages
        L == IF floor < 1 THEN 1 ELSE floor
        p == extraction.pageNum
    IN  extraction.pageText
          = Join(LinesIn(extraction.textLines, (p - 1) * L,
                         IF p * L < N THEN p * L ELSE N), "\n")

\* C17, its case: four lines on two pages, and page 2 has just been given
\* the third and the fourth line.
C17_SecondPageOfTwo ==
  /\ extraction.step = "loop"
  /\ extraction.totalPages = 2
  /\ Len(extraction.textLines) = 4
  /\ extraction.pageNum = 2
  /\ extraction.pageText
       = extraction.textLines[3] \o << "\n" >> \o extraction.textLines[4]

\* C18: a pass of the loop of either extractor for a page number below 1 or
\* above totalPages adds '[Page p not available - PDF has only T pages]',
\* on a line of its own, to the content and nothing else, and the loop
\* goes on.
C18_OutOfRangeGivesNotAvailable ==
  [][(/\ extraction.step = "loop"
      /\ extraction.next <= Len(extraction.pages)
      /\ extraction' # extraction
      /\ \/ extraction.pages[extraction.next] < 1
         \/ extraction.pages[extraction.next] > extraction.totalPages) =>
       /\ extraction'.step = "loop"
       /\ extraction'.next = extraction.next + 1
       /\ extraction'.content =
            extraction.content
              \o << "\n", "[Page " >>
              \o IntToStr(extraction.pages[extraction.next])
              \o << " not available - PDF has only " >>
              \o IntToStr(extraction.totalPages)
              \o << " pages]", "\n" >>]_vars

\* The block the specification gives page p of a document of T pages with
\* the given non-empty lines.
ExpectedBlock(lines, T, p) ==
  LET N == Len(lines)
      floor == N \div T
      L == IF floor < 1 THEN 1 ELSE floor
      slice == LinesIn(lines, (p - 1) * L, IF p * L < N THEN p * L ELSE N)
  IN  IF p < 1 \/ p > T
        THEN << "[Page " >> \o IntToStr(p)
               \o << " not available - PDF has only " >> \o IntToStr(T)
               \o << " pages]" >>
      ELSE IF slice = << >>
        THEN << "[Page " >> \o IntToStr(p)
               \o << " appears to have no text content]" >>
      ELSE << "--- Page " >> \o IntToStr(p) \o << " ---", "\n" >>
             \o Join(slice, "\n")

\* The blocks of the pages from entry i on, an empty line between two.
RECURSIVE ExpectedBlocks(_, _, _, _)
ExpectedBlocks(lines, T, pages, i) ==
  IF i > Len(pages) THEN << >>
  ELSE (IF i > 1 THEN << "\n", "\n" >> ELSE << >>)
         \o ExpectedBlock(lines, T, pages[i])
         \o ExpectedBlocks(lines, T, pages, i + 1)

\* C19: for a page list that is not empty, what extractPDFText returns is
\* the blocks of the entries of the list, one per entry, in the order of
\* the list and with repeated entries repeated, up to the whitespace at the
\* end of the text, which is trimmed.
C19_OneBlockPerRequestedPage ==
  (/\ extraction.fn = "extractPDFText"
   /\ extraction.step = "done"
   /\ extraction.outcome.kind = "returned"
   /\ extraction.pages # << >>) =>
    extraction.outcome.value
      = TrimEnd(ExpectedBlocks(extraction.textLines, extraction.totalPages,
                               extraction.pages, 1))

\* C19, its case: page 1 and a page past the end were requested, in this
\* order, and the text holds page 1's lines and then the placeholder.
C19_SliceThenPlaceholder ==
  /\ extraction.fn = "extractPDFText"
  /\ extraction.step = "done"
  /\ extraction.outcome.kind = "returned"
  /\ extraction.pages = << 1, 4 >>
  /\ extraction.totalPages = 3
  /\ extraction.textLines = << << "1" >>, << " ", "2", " " >>, << "3" >> >>
  /\ extraction.outcome.value
       = << "--- Page ", "1", " ---", "\n", "1", "\n", "\n",
            "[Page ", "4", " not available - PDF has only ", "3", " pages]" >>

\* C20: what either extractor returns is never empty nor blank, and it is
\* 'No text content found for selected pages' whenever the blocks put
\* together are blank, as they are for the empty page list.
C20_ReturnedTextNeverEmpty ==
  (/\ extraction.step = "done"
   /\ extraction.outcome.kind = "returned") =>
    /\ extraction.outcome.value # << >>
    /\ ~IsBlank(extraction.outcome.value)
    /\ IsBlank(extraction.content) =>
         extraction.outcome.value
           = << "No text content found for selected pages" >>
    /\ extraction.pages = << >> => IsBlank(extraction.content)

\* C20, its case: extractSpecificPages was called with no pages and
\* returned the sentinel.
C20_EmptyListGivesSentinel ==
  /\ extraction.fn = "extractSpecificPages"
  /\ extraction.step = "done"
  /\ extraction.outcome.kind = "returned"
  /\ extraction.pages = << >>
  /\ extraction.outcome.value
       = << "No text content found for selected pages" >>

\* C22: intervals that only touch never conflict: the conflict query of a
\* request about to run it matches no booking of the tutor that ends at the
\* instant the request starts or starts at the instant the request ends.
C22_AdjacentNeverConflict ==
  \A r \in Requests :
    pc[r] = "conflict" =>
      \A i \in DOMAIN bookings :
        (/\ bookings[i].tutorId = frame[r].body.tutorId
         /\ \/ bookings[i].endTime = frame[r].body.startTime
            \/ bookings[i].startTime = frame[r].body.endTime) =>
          i \notin ConflictRows(frame[r].body.tutorId, frame[r].body.startTime,
                                frame[r].body.endTime)

\* In this step request r's handler returned an error response of its own:
\* not the success, and not the 500 for an await that rejected.
Refused(r) ==
  /\ pc[r] # "done"
  /\ pc'[r] = "done"
  /\ response'[r].status # 200
  /\ response'[r] # InternalError("await rejected")

\* C23: a request is refused by the first check that fails, in the order
\* 401, 403, 400 (fields), 400 (profile created), 404, 400 (availability),
\* 400 (conflict); the refusing step leaves the store as it was, but for the
\* profile the student-profile step creates.
C23_FirstFailingCheckAnswers ==
  [][\A r \in Requests :
       Refused(r) =>
         /\ bookings' = bookings
         /\ conversations' = conversations
         /\ notifications' = notifications
         /\ studentProfiles' # studentProfiles => pc[r] = "newProfile"
         /\ \/ /\ pc[r] = "auth"
               /\ response'[r] = Json(401, "Unauthorized")
            \/ /\ pc[r] = "auth"
               /\ response'[r] = Json(403, "Only students can book sessions")
               /\ AuthenticateUser(frame[r].token) # Null
            \/ /\ pc[r] = "body"
               /\ response'[r] = Json(400, "Missing required fields")
               /\ frame[r].user.role = "STUDENT"
            \/ /\ pc[r] = "newProfile"
               /\ response'[r] =
                    Json(400, "Student profile created. Please try booking again.")
               /\ ~MissingFields(frame[r].body)
            \/ /\ pc[r] = "tutor"
               /\ response'[r] = Json(404, "Tutor not found")
               /\ frame[r].studentProfile \in studentProfiles
            \/ /\ pc[r] = "tutor"
               /\ Rejected(r)
               /\ frame[r].body.tutorId \in DOMAIN tutorProfiles
            \/ /\ pc[r] = "conflict"
               /\ response'[r] = Conflict
               /\ frame[r].isAvailable]_vars

\* C27: requests handled one at a time, each with startTime < endTime: no
\* two bookings of one tutor overlap.
C27_SerialBookingsDisjoint ==
  (\A i \in DOMAIN bookings : bookings[i].startTime < bookings[i].endTime) =>
    \A i, j \in DOMAIN bookings :
      (i # j /\ bookings[i].tutorId = bookings[j].tutorId) =>
        ~(/\ bookings[i].startTime < bookings[j].endTime
          /\ bookings[j].startTime < bookings[i].endTime)

\* C28: a request answered with an error status has inserted no booking: the
\* step that returns a 4xx or 5xx is taken by a handler that holds no
\* booking of its own, and inserts none.
C28_ErrorInsertsNoBooking ==
  [][\A r \in Requests :
       (pc[r] # "done" /\ pc'[r] = "done" /\ response'[r].status >= 400) =>
         /\ frame[r].booking = Null
         /\ bookings' = bookings]_vars

\* C29: every booking in the table has startTime < endTime: a request whose
\* endTime is not after its startTime inserts nothing.
C29_BookingStartsBeforeEnd ==
  \A i \in DOMAIN bookings : bookings[i].startTime < bookings[i].endTime

\* In this step request r's handler left the await at label, and not by the
\* await rejecting.
Left(r, label) ==
  /\ pc[r] = label
  /\ pc'[r] # label
  /\ response'[r] # InternalError("await rejected")

\* C24: a request of a student without a profile goes from the profile
\* lookup to the creation of the profile and is then always answered the 400
\* 'Student profile created. Please try booking again.', with the profile in
\* the store and no booking inserted; a request of a student with a profile
\* goes from the lookup on to the tutor.
C24_ProfileCreatedThenRetry ==
  [][\A r \in Requests :
       /\ Left(r, "profile") =>
            /\ pc'[r] = IF ProfilesOf(frame[r].user.id) = {}
                          THEN "newProfile" ELSE "tutor"
            /\ store' = store
       /\ Left(r, "newProfile") =>
            /\ pc'[r] = "done"
            /\ response'[r] =
                 Json(400, "Student profile created. Please try booking again.")
            /\ \E p \in studentProfiles' : p.userId = frame[r].user.id
            /\ bookings' = bookings]_vars

\* C25: the check's comparison of strings decides as the comparison of the
\* times in minutes since midnight does, also for slot bounds written
\* without a leading zero: on a map-form schedule the request passes if and
\* only if some slot of the open day has start <= time < end as times, and
\* is rejected otherwise.
C25_StringOrderIsTimeOrder ==
  [][\A r \in Requests :
       (CheckedAvailability(r) /\ ScheduleOf(r).kind = "object") =>
         LET covered == MapCovers(ScheduleOf(r).props,
                                  DayName(RequestedDay(r)), RequestedAt(r))
         IN  /\ Passed(r) <=> covered
             /\ Rejected(r) <=> ~covered]_vars

\* The lines extractPDFText takes for pages 1..pageNum, one page after the
\* other.
RECURSIVE LinesOfPagesUpTo(_, _, _)
LinesOfPagesUpTo(textLines, totalPages, pageNum) ==
  IF pageNum = 0 THEN << >>
  ELSE LinesOfPagesUpTo(textLines, totalPages, pageNum - 1)
         \o PageLines(textLines, totalPages, pageNum)

\* C30: for a document of N >= 1 non-empty lines and totalPages >= 1 pages,
\* the slices extractPDFText takes for pages 1..totalPages share no line and
\* together hold all N lines: one after the other they are the document's
\* lines.
C30_PageSlicesPartitionLines ==
  (/\ extraction.fn = "extractPDFText"
   /\ extraction.step \in {"loop", "done"}
   /\ Len(extraction.textLines) >= 1) =>
    LinesOfPagesUpTo(extraction.textLines, extraction.totalPages,
                     extraction.totalPages) = extraction.textLines

\* The call of extractPDFText made for the request has thrown.
ExtractionFailed ==
  /\ extraction.step = "done"
  /\ extraction.outcome.kind = "thrown"

\* C21: extractPDFText throws for a missing file, a parse that fails and a
\* text without a non-blank character before it takes the slice of any
\* page; POST and handleChatRequest then go on to the completion call with
\* the content generateIntelligentContent writes for the pages, and an
\* error response after a failed extraction is the one of a completion call
\* that was made and gave no content or rejected.
C21_ExtractionFailureFallsBack ==
  /\ (/\ extraction.step \in { "loop", "done" }
      /\ ~ExtractionFailed) =>
       ~IsBlank(extraction.pdfData.text)
  /\ ExtractionFailed =>
       /\ extraction.outcome.message
            \in { "PDF file not found", "pdf-parse rejected",
                  "No text content found in PDF", "No readable text found in PDF" }
       /\ extraction.next = 1
       /\ extraction.pageText = Null
       /\ extraction.content = << >>
       /\ summarize.step \in { "completion", "done" } =>
            /\ summarize.fn \in { "POST", "handleChatRequest" }
            /\ summarize.actualContent
                 = GenerateIntelligentContent(summarize.body.pages)
            /\ summarize.completionCalls = 1
       /\ (summarize.step = "done" /\ summarize.response.status # 200) =>
            summarize.completion \in { "empty", "rejected" }

\* C21, its case: the document had no non-blank text, extractPDFText threw,
\* and handleChatRequest answered the question from the generated content.
C21_ChatAnsweredFromGeneratedContent ==
  /\ ExtractionFailed
  /\ extraction.outcome.message = "No text content found in PDF"
  /\ summarize.step = "done"
  /\ summarize.fn = "handleChatRequest"
  /\ summarize.response = Chatted(summarize.body)
  /\ summarize.actualContent = GenerateIntelligentContent(summarize.body.pages)

\* C26: a request with summaryType 'chat' whose chatMessage is missing or
\* empty, pdfPath and pages given, is answered 400 'Chat message is
\* required' at once: it awaits no extraction and no completion.
C26_ChatWithoutMessageRefused ==
  (/\ summarize.body # Null
   /\ ~PathOrPagesMissing(summarize.body)
   /\ SummaryTypeOf(summarize.body) = "chat"
   /\ ~Truthy(summarize.body, "chatMessage")) =>
    /\ summarize.step = "done"
    /\ summarize.response = Json(400, "Chat message is required")
    /\ summarize.completionCalls = 0

=============================================================================
